---- MODULE Spec2Model ----
(***************************************************************************)
(* IntaRNA: the bounded best-K interaction store                           *)
(* (OutputHandlerInteractionList), IndexRange (overlappingWindows,         *)
(* getRangePairs, operator+ and operator-), IndexRangeList (covers,        *)
(* push_back, insert) and InteractionEnergy (isAllowedLoopRegion,          *)
(* isValidInternalLoop, getE, getE_SSE).                                   *)
(***************************************************************************)
EXTENDS Integers, Sequences, FiniteSets, TLC

(***************************************************************************)
(* Bounds of the model.                                                    *)
(***************************************************************************)
\* largest maxToStore a store is constructed with
MaxK == 2
\* non-empty interactions are ranked by a key in 1..MaxKey
MaxKey == 3
\* number of add calls made in one run
MaxCalls == 4
\* size_t is modelled with IndexBits bits
IndexBits == 4
\* the ranges handed to an IndexRangeList have their ends in 0..MaxListIndex
MaxListIndex == 3
\* number of push_back and insert calls made on one IndexRangeList
MaxListCalls == 2
\* loop boundaries are drawn from 0..MaxSeqLen; no sequence is longer
MaxSeqLen == 3
\* probabilities are fixed-point numbers with PrBits binary places
PrBits == 2
\* window widths and overlaps are drawn from 0..MaxWidth
MaxWidth == 5
\* the ranges handed to getRangePairs have their ends in 0..MaxPairIndex
MaxPairIndex == 3

\* the reporting threads
Threads == {1, 2}
\* no thread is inside the critical section
NoThread == 0

VARIABLES
    maxToStore,            \* OutputHandlerInteractionList::maxToStore
    storage,               \* OutputHandlerInteractionList::storage: pointers, best first
    reportedInteractions,  \* OutputHandler::reportedInteractions
    heap,                  \* heap[p]: the Interaction copy behind pointer p and its state
    lock,                  \* holder of omp critical(intarna_omp_OutputHandlerInteractionListUpdate)
    pc,                    \* pc[t]: position of thread t
    arg,                   \* arg[t]: the interaction thread t reports (0: an empty one)
    reg,                   \* reg[t]: the counter value t read for its increment
    insertPos,             \* insertPos[t]: the iterator of add, as a position
    isLastElement,         \* isLastElement[t]: the flag of add
    result,                \* result[t]: how t's last call ended
    ubEvents,              \* undefined operations executed so far
    callsMade,             \* calls started so far
    doneCalls,             \* add(Interaction) calls that have returned
    doneKeys,              \* the non-empty interactions of the calls that have returned
    dPc,                   \* position of the destructor: "alive" before it runs
    it                     \* the iterator of the destructor's loop, as a position

lifeVars == <<dPc, it>>

storeVars == <<maxToStore, storage, reportedInteractions, heap, lock, pc, arg, reg,
               insertPos, isLastElement, result, ubEvents, callsMade, doneCalls, doneKeys,
               lifeVars>>

VARIABLES
    wRange,                \* the IndexRange overlappingWindows is called on
    wWidth,                \* windowWidth
    wOverlap,              \* windowsOverlap
    wOut                   \* the outcome of the call, Pending before it

winVars == <<wRange, wWidth, wOverlap, wOut>>

VARIABLES
    pQuery,                \* getRangePairs: query
    pTarget,               \* getRangePairs: target
    pWidth,                \* getRangePairs: windowWidth
    pOverlap,              \* getRangePairs: windowsOverlap
    queryWindows,          \* getRangePairs: queryWindows
    targetWindows,         \* getRangePairs: targetWindows
    pairs,                 \* getRangePairs: pairs
    pI,                    \* getRangePairs: i
    pQ,                    \* position of the outer BOOST_FOREACH
    pT,                    \* position of the inner BOOST_FOREACH
    pPc                    \* position of the call, then its outcome

pairVars == <<pQuery, pTarget, pWidth, pOverlap, queryWindows, targetWindows,
              pairs, pI, pQ, pT, pPc>>

VARIABLES
    sRange,                \* the IndexRange operator+ or operator- is called on
    sShift,                \* shift
    sOut                   \* the outcome of the call, NotShifted before it

shiftVars == <<sRange, sShift, sOut>>

VARIABLES
    debugMode,             \* IN_DEBUG_MODE of the build
    list,                  \* IndexRangeList::list
    lCalls,                \* the push_back and insert calls made so far, with their outcomes
    cOut                   \* the outcome of the last covers call on the list as it is

listVars == <<debugMode, list, lCalls, cOut>>

VARIABLES
    seq1,                  \* accS1.getSequence()
    seq2,                  \* accS2.getSequence()
    maxInternalLoopSize1,  \* InteractionEnergy::maxInternalLoopSize1
    maxInternalLoopSize2,  \* InteractionEnergy::maxInternalLoopSize2
    qI1, qJ1, qI2, qJ2,    \* the loop boundaries i1, j1, i2, j2 of the call
    qOut                   \* the outcome of the call, NotAsked before it

loopVars == <<seq1, seq2, maxInternalLoopSize1, maxInternalLoopSize2,
              qI1, qJ1, qI2, qJ2, qOut>>

VARIABLES
    energyModel,           \* the concrete class behind the InteractionEnergy hooks
    lanes,                 \* the four candidates (i1, j1, i2, j2, hybridE) of the caller
    eOut                   \* the outcome of the last getE or getE_SSE call

energyVars == <<energyModel, lanes, eOut>>

libVars == <<shiftVars, listVars, loopVars, energyVars>>

vars == <<storeVars, lifeVars, winVars, pairVars, libVars>>

(***************************************************************************)
(* Interactions.  An Interaction is known to the store only through        *)
(* isEmpty() and the rank order; it is identified with its rank key.       *)
(***************************************************************************)
EmptyInteraction == 0
Interactions == 0..MaxKey

\* Interaction::isEmpty()
IsEmpty(k) == k = EmptyInteraction

\* lessThan_StorageContainer(a, b): *a < *b, on the copies' rank keys
LessThan_StorageContainer(ka, kb) == ka < kb

\* *p for a stored pointer p: the interaction copy it points to
Deref(p) == heap[p].key

\* the rank keys of the stored copies, in storage order
StoredKeys == [i \in 1..Len(storage) |-> Deref(storage[i])]

(***************************************************************************)
(* std::lower_bound(storage.begin(), storage.end(), &interaction, lessThan)*)
(* by bisection; positions are 1..Len, end() is Len + 1.                   *)
(***************************************************************************)
RECURSIVE LowerBoundFrom(_, _, _, _)
LowerBoundFrom(keys, value, first, len) ==
    IF len <= 0 THEN first
    ELSE LET half == len \div 2
             middle == first + half
         IN  IF LessThan_StorageContainer(keys[middle], value)
             THEN LowerBoundFrom(keys, value, middle + 1, len - half - 1)
             ELSE LowerBoundFrom(keys, value, first, half)

LowerBound(keys, value) == LowerBoundFrom(keys, value, 1, Len(keys))

\* InsertAt with the position ignored: the copy is appended
InsertAt_AtEnd(s, pos, p) == Append(s, p)

\* storage.insert(pos, p): p is placed before position pos
InsertAt(s, pos, p) == SubSeq(s, 1, pos - 1) \o <<p>> \o SubSeq(s, pos, Len(s))

(***************************************************************************)
(* Construction: OutputHandlerInteractionList(maxToStore)                  *)
(***************************************************************************)
InitStore ==
    /\ maxToStore \in 0..MaxK
    /\ storage = <<>>
    /\ reportedInteractions = 0
    /\ heap = <<>>
    /\ lock = NoThread
    /\ pc = [t \in Threads |-> "idle"]
    /\ arg = [t \in Threads |-> EmptyInteraction]
    /\ reg = [t \in Threads |-> 0]
    /\ insertPos = [t \in Threads |-> 1]
    /\ isLastElement = [t \in Threads |-> FALSE]
    /\ result = [t \in Threads |-> "none"]
    /\ ubEvents = {}
    /\ callsMade = 0
    /\ doneCalls = 0
    /\ doneKeys = {}
    /\ dPc = "alive"
    /\ it = 1

(***************************************************************************)
(* add(const Interaction &)                                                *)
(***************************************************************************)
\* a thread calls add(interaction); line 36 tests interaction.isEmpty()
Call(t) ==
    /\ dPc = "alive"
    /\ pc[t] = "idle"
    /\ callsMade < MaxCalls
    /\ \E k \in Interactions :
          /\ arg' = [arg EXCEPT ![t] = k]
          /\ pc' = [pc EXCEPT ![t] = IF IsEmpty(k) THEN "emptyLock" ELSE "lock"]
    /\ callsMade' = callsMade + 1
    /\ result' = [result EXCEPT ![t] = "none"]
    /\ UNCHANGED <<maxToStore, storage, reportedInteractions, heap, lock, reg,
                   insertPos, isLastElement, ubEvents, doneCalls, doneKeys,
                   lifeVars, winVars, pairVars, libVars>>

\* CanEnterCritical without the critical section: a thread enters at once
CanEnterCritical_Always(t) == TRUE

\* entry of a critical section named intarna_omp_OutputHandlerInteractionListUpdate
CanEnterCritical(t) == lock = NoThread

\* lines 38-40: the critical section of the empty report is entered
EmptyAcquire(t) ==
    /\ pc[t] = "emptyLock"
    /\ CanEnterCritical(t)
    /\ lock' = t
    /\ pc' = [pc EXCEPT ![t] = "emptyRead"]
    /\ UNCHANGED <<maxToStore, storage, reportedInteractions, heap, arg, reg,
                   insertPos, isLastElement, result, ubEvents, callsMade, doneCalls, doneKeys,
                   lifeVars, winVars, pairVars, libVars>>

\* line 42, reportedInteractions++: the read
EmptyRead(t) ==
    /\ pc[t] = "emptyRead"
    /\ reg' = [reg EXCEPT ![t] = reportedInteractions]
    /\ pc' = [pc EXCEPT ![t] = "emptyWrite"]
    /\ UNCHANGED <<maxToStore, storage, reportedInteractions, heap, lock, arg,
                   insertPos, isLastElement, result, ubEvents, callsMade, doneCalls, doneKeys,
                   lifeVars, winVars, pairVars, libVars>>

\* EmptyWrite without the increment: an empty report is not counted
EmptyWrite_NoCount(t) ==
    /\ pc[t] = "emptyWrite"
    /\ lock' = NoThread
    /\ pc' = [pc EXCEPT ![t] = "idle"]
    /\ result' = [result EXCEPT ![t] = "returned"]
    /\ doneCalls' = doneCalls + 1
    /\ UNCHANGED <<maxToStore, storage, reportedInteractions, heap, arg, reg, insertPos,
                   isLastElement, ubEvents, callsMade, doneKeys, lifeVars, winVars, pairVars, libVars>>

\* lines 42-44, reportedInteractions++: the write; the section ends and add returns
EmptyWrite(t) ==
    /\ pc[t] = "emptyWrite"
    /\ reportedInteractions' = reg[t] + 1
    /\ lock' = NoThread
    /\ pc' = [pc EXCEPT ![t] = "idle"]
    /\ result' = [result EXCEPT ![t] = "returned"]
    /\ doneCalls' = doneCalls + 1
    /\ UNCHANGED <<maxToStore, storage, heap, arg, reg, insertPos, isLastElement,
                   ubEvents, callsMade, doneKeys,
                   lifeVars, winVars, pairVars, libVars>>

\* lines 48-50: the critical section of a non-empty report is entered
Acquire(t) ==
    /\ pc[t] = "lock"
    /\ CanEnterCritical(t)
    /\ lock' = t
    /\ pc' = [pc EXCEPT ![t] = "countRead"]
    /\ UNCHANGED <<maxToStore, storage, reportedInteractions, heap, arg, reg,
                   insertPos, isLastElement, result, ubEvents, callsMade, doneCalls, doneKeys,
                   lifeVars, winVars, pairVars, libVars>>

\* line 52, reportedInteractions++: the read
CountRead(t) ==
    /\ pc[t] = "countRead"
    /\ reg' = [reg EXCEPT ![t] = reportedInteractions]
    /\ pc' = [pc EXCEPT ![t] = "countWrite"]
    /\ UNCHANGED <<maxToStore, storage, reportedInteractions, heap, lock, arg,
                   insertPos, isLastElement, result, ubEvents, callsMade, doneCalls, doneKeys,
                   lifeVars, winVars, pairVars, libVars>>

\* CountWrite with the increment lost: the value read is written back
CountWrite_Lost(t) ==
    /\ pc[t] = "countWrite"
    /\ reportedInteractions' = reg[t]
    /\ pc' = [pc EXCEPT ![t] = "check"]
    /\ UNCHANGED <<maxToStore, storage, heap, lock, arg, reg, insertPos, isLastElement,
                   result, ubEvents, callsMade, doneCalls, doneKeys, lifeVars, winVars, pairVars, libVars>>

\* line 52, reportedInteractions++: the write
CountWrite(t) ==
    /\ pc[t] = "countWrite"
    /\ reportedInteractions' = reg[t] + 1
    /\ pc' = [pc EXCEPT ![t] = "check"]
    /\ UNCHANGED <<maxToStore, storage, heap, lock, arg, reg, insertPos, isLastElement,
                   result, ubEvents, callsMade, doneCalls, doneKeys,
                   lifeVars, winVars, pairVars, libVars>>

\* line 53: storage.size() < maxToStore || lessThan(&interaction, *(storage.rbegin())).
\* With the storage empty and maxToStore = 0, *(storage.rbegin()) is undefined: the
\* call fails there, or the comparison of the garbage yields either truth value.
CheckBetter(t) ==
    /\ pc[t] = "check"
    /\ IF Len(storage) < maxToStore
       THEN /\ pc' = [pc EXCEPT ![t] = "search"]
            /\ UNCHANGED ubEvents
       ELSE IF storage = <<>>
       THEN /\ ubEvents' = ubEvents \cup {"rbegin of empty storage"}
            /\ \E next \in {"failed", "search", "retRejected"} :
                  pc' = [pc EXCEPT ![t] = next]
       ELSE /\ pc' = [pc EXCEPT ![t] =
                  IF LessThan_StorageContainer(arg[t], Deref(storage[Len(storage)]))
                  THEN "search" ELSE "retRejected"]
            /\ UNCHANGED ubEvents
    /\ UNCHANGED <<maxToStore, storage, reportedInteractions, heap, lock, arg, reg,
                   insertPos, isLastElement, result, callsMade, doneCalls, doneKeys,
                   lifeVars, winVars, pairVars, libVars>>

\* line 56: insertPos = std::lower_bound(...)
Search(t) ==
    /\ pc[t] = "search"
    /\ insertPos' = [insertPos EXCEPT ![t] = LowerBound(StoredKeys, arg[t])]
    /\ pc' = [pc EXCEPT ![t] = "dup"]
    /\ UNCHANGED <<maxToStore, storage, reportedInteractions, heap, lock, arg, reg,
                   isLastElement, result, ubEvents, callsMade, doneCalls, doneKeys,
                   lifeVars, winVars, pairVars, libVars>>

\* DupCheck without the test: every candidate goes on to the insertion
DupCheck_Missing(t) ==
    /\ pc[t] = "dup"
    /\ pc' = [pc EXCEPT ![t] = "evict"]
    /\ isLastElement' = [isLastElement EXCEPT ![t] = FALSE]
    /\ UNCHANGED <<maxToStore, storage, reportedInteractions, heap, lock, arg, reg,
                   insertPos, result, ubEvents, callsMade, doneCalls, doneKeys,
                   lifeVars, winVars, pairVars, libVars>>

\* line 60: insertPos == storage.end() || lessThan(&interaction, *insertPos);
\* line 62: isLastElement = false.  (An iterator past end() exists only if
\* another thread shrank the storage meanwhile; it is treated as end() here and
\* caught at the insertion.)
DupCheck(t) ==
    /\ pc[t] = "dup"
    /\ IF \/ insertPos[t] >= Len(storage) + 1
          \/ LessThan_StorageContainer(arg[t], Deref(storage[insertPos[t]]))
       THEN pc' = [pc EXCEPT ![t] = "evict"]
       ELSE pc' = [pc EXCEPT ![t] = "retDuplicate"]
    /\ isLastElement' = [isLastElement EXCEPT ![t] = FALSE]
    /\ UNCHANGED <<maxToStore, storage, reportedInteractions, heap, lock, arg, reg,
                   insertPos, result, ubEvents, callsMade, doneCalls, doneKeys,
                   lifeVars, winVars, pairVars, libVars>>

\* lines 65-72: if the storage is full and insertPos is the last element, step the
\* iterator back.  std::prev(storage.end()) of an empty storage and
\* std::prev(storage.begin()) are undefined: the call fails there, or the iterator
\* arithmetic goes through (a sentinel node, a pointer before the array).  On an
\* empty storage the comparison of line 69 then yields either truth value.
EvictCheck(t) ==
    /\ pc[t] = "evict"
    /\ IF Len(storage) < maxToStore
       THEN /\ pc' = [pc EXCEPT ![t] = "insert"]
            /\ UNCHANGED <<insertPos, isLastElement, ubEvents>>
       ELSE IF storage = <<>>
       THEN /\ ubEvents' = ubEvents \cup {"prev of end of empty storage"}
            /\ \/ /\ pc' = [pc EXCEPT ![t] = "failed"]
                  /\ UNCHANGED <<insertPos, isLastElement>>
               \/ /\ pc' = [pc EXCEPT ![t] = "delete"]
                  /\ UNCHANGED <<insertPos, isLastElement>>
               \/ /\ pc' = [pc EXCEPT ![t] = "delete"]
                  /\ insertPos' = [insertPos EXCEPT ![t] = 0]
                  /\ isLastElement' = [isLastElement EXCEPT ![t] = TRUE]
       ELSE IF insertPos[t] # Len(storage)
       THEN /\ pc' = [pc EXCEPT ![t] = "delete"]
            /\ UNCHANGED <<insertPos, isLastElement, ubEvents>>
       ELSE IF insertPos[t] = 1
       THEN /\ ubEvents' = ubEvents \cup {"prev of begin"}
            /\ \/ /\ pc' = [pc EXCEPT ![t] = "failed"]
                  /\ UNCHANGED <<insertPos, isLastElement>>
               \/ /\ pc' = [pc EXCEPT ![t] = "delete"]
                  /\ insertPos' = [insertPos EXCEPT ![t] = 0]
                  /\ isLastElement' = [isLastElement EXCEPT ![t] = TRUE]
       ELSE /\ pc' = [pc EXCEPT ![t] = "delete"]
            /\ insertPos' = [insertPos EXCEPT ![t] = insertPos[t] - 1]
            /\ isLastElement' = [isLastElement EXCEPT ![t] = TRUE]
            /\ UNCHANGED ubEvents
    /\ UNCHANGED <<maxToStore, storage, reportedInteractions, heap, lock, arg, reg,
                   result, callsMade, doneCalls, doneKeys,
                   lifeVars, winVars, pairVars, libVars>>

\* delete p: a live copy is released; releasing any other is a double release
Release(h, p) ==
    [h EXCEPT ![p].st = IF h[p].st = "live" THEN "released" ELSE "released twice"]

\* line 75: delete (*(storage.rbegin())).  On an empty storage the pointer read
\* is garbage and no copy of the store: the delete fails, or goes through
\* without touching a copy.
DeleteLast(t) ==
    /\ pc[t] = "delete"
    /\ IF storage = <<>>
       THEN /\ ubEvents' = ubEvents \cup {"rbegin of empty storage"}
            /\ \E next \in {"failed", "resize"} : pc' = [pc EXCEPT ![t] = next]
            /\ UNCHANGED heap
       ELSE /\ heap' = Release(heap, storage[Len(storage)])
            /\ pc' = [pc EXCEPT ![t] = "resize"]
            /\ UNCHANGED ubEvents
    /\ UNCHANGED <<maxToStore, storage, reportedInteractions, lock, arg, reg,
                   insertPos, isLastElement, result, callsMade, doneCalls, doneKeys,
                   lifeVars, winVars, pairVars, libVars>>

\* line 77: storage.resize(storage.size()-1); size 0 wraps to the largest size_t,
\* which no container can hold
ResizeLast(t) ==
    /\ pc[t] = "resize"
    /\ IF storage = <<>>
       THEN /\ pc' = [pc EXCEPT ![t] = "failed"]
            /\ UNCHANGED storage
       ELSE /\ storage' = SubSeq(storage, 1, Len(storage) - 1)
            /\ pc' = [pc EXCEPT ![t] = "insert"]
    /\ UNCHANGED <<maxToStore, reportedInteractions, heap, lock, arg, reg,
                   insertPos, isLastElement, result, ubEvents, callsMade, doneCalls, doneKeys,
                   lifeVars, winVars, pairVars, libVars>>

\* lines 81-85: the iterator is stepped forward again if it was stepped back, and
\* a new copy is inserted before it.  An iterator that is no position of the
\* storage (left behind by another thread's change) is undefined to use.
Insert(t) ==
    /\ pc[t] = "insert"
    /\ LET pos == IF isLastElement[t] THEN insertPos[t] + 1 ELSE insertPos[t]
           p == Len(heap) + 1
       IN  IF pos \in 1..(Len(storage) + 1)
           THEN /\ heap' = Append(heap, [key |-> arg[t], st |-> "live"])
                /\ storage' = InsertAt(storage, pos, p)
                /\ insertPos' = [insertPos EXCEPT ![t] = pos]
                /\ pc' = [pc EXCEPT ![t] = "retStored"]
                /\ UNCHANGED ubEvents
           ELSE /\ ubEvents' = ubEvents \cup {"invalid iterator"}
                /\ pc' = [pc EXCEPT ![t] = "failed"]
                /\ UNCHANGED <<heap, storage, insertPos>>
    /\ UNCHANGED <<maxToStore, reportedInteractions, lock, arg, reg,
                   isLastElement, result, callsMade, doneCalls, doneKeys,
                   lifeVars, winVars, pairVars, libVars>>

\* line 88: the critical section ends and add returns
Return(t) ==
    /\ pc[t] \in {"retRejected", "retDuplicate", "retStored"}
    /\ lock' = NoThread
    /\ pc' = [pc EXCEPT ![t] = "idle"]
    /\ result' = [result EXCEPT ![t] = "returned"]
    /\ doneCalls' = doneCalls + 1
    /\ doneKeys' = doneKeys \cup {arg[t]}
    /\ UNCHANGED <<maxToStore, storage, reportedInteractions, heap, arg, reg,
                   insertPos, isLastElement, ubEvents, callsMade,
                   lifeVars, winVars, pairVars, libVars>>

(***************************************************************************)
(* add(const InteractionRange &)                                           *)
(***************************************************************************)
\* a thread calls add(range)
CallRange(t) ==
    /\ dPc = "alive"
    /\ pc[t] = "idle"
    /\ callsMade < MaxCalls
    /\ pc' = [pc EXCEPT ![t] = "range"]
    /\ callsMade' = callsMade + 1
    /\ result' = [result EXCEPT ![t] = "none"]
    /\ UNCHANGED <<maxToStore, storage, reportedInteractions, heap, lock, arg, reg,
                   insertPos, isLastElement, ubEvents, doneCalls, doneKeys,
                   lifeVars, winVars, pairVars, libVars>>

\* AddRange that drops the range and returns
AddRange_Silent(t) ==
    /\ pc[t] = "range"
    /\ pc' = [pc EXCEPT ![t] = "idle"]
    /\ result' = [result EXCEPT ![t] = "returned"]
    /\ UNCHANGED <<maxToStore, storage, reportedInteractions, heap, lock, arg, reg,
                   insertPos, isLastElement, ubEvents, callsMade, doneCalls, doneKeys,
                   lifeVars, winVars, pairVars, libVars>>

\* INTARNA_NOT_IMPLEMENTED(message): the call ends with this error
NotImplemented == "not implemented"

\* line 97: INTARNA_NOT_IMPLEMENTED(...) ends the call with the error
AddRange(t) ==
    /\ pc[t] = "range"
    /\ pc' = [pc EXCEPT ![t] = "idle"]
    /\ result' = [result EXCEPT ![t] = NotImplemented]
    /\ UNCHANGED <<maxToStore, storage, reportedInteractions, heap, lock, arg, reg,
                   insertPos, isLastElement, ubEvents, callsMade, doneCalls, doneKeys,
                   lifeVars, winVars, pairVars, libVars>>

(***************************************************************************)
(* ~OutputHandlerInteractionList()                                         *)
(***************************************************************************)
\* the object is destroyed once no call of add is running; line 24:
\* it = storage.begin()
DestructorBegin ==
    /\ dPc = "alive"
    /\ \A t \in Threads : pc[t] = "idle"
    /\ dPc' = "loop"
    /\ it' = 1
    /\ UNCHANGED <<maxToStore, storage, reportedInteractions, heap, lock, pc, arg, reg,
                   insertPos, isLastElement, result, ubEvents, callsMade, doneCalls, doneKeys,
                   winVars, pairVars, libVars>>

\* lines 24-26: it != storage.end(), delete (*it), it++
DestructorDelete ==
    /\ dPc = "loop"
    /\ it <= Len(storage)
    /\ heap' = Release(heap, storage[it])
    /\ it' = it + 1
    /\ UNCHANGED <<maxToStore, storage, reportedInteractions, lock, pc, arg, reg,
                   insertPos, isLastElement, result, ubEvents, callsMade, doneCalls, doneKeys,
                   dPc, winVars, pairVars, libVars>>

\* lines 24, 27: it == storage.end() ends the loop, storage.clear()
DestructorClear ==
    /\ dPc = "loop"
    /\ it > Len(storage)
    /\ storage' = <<>>
    /\ dPc' = "destroyed"
    /\ UNCHANGED <<maxToStore, reportedInteractions, heap, lock, pc, arg, reg,
                   insertPos, isLastElement, result, ubEvents, callsMade, doneCalls, doneKeys,
                   it, winVars, pairVars, libVars>>

\* the steps of the destructor
NextDestructor == DestructorBegin \/ DestructorDelete \/ DestructorClear

NextStore ==
    \E t \in Threads :
        \/ Call(t)
        \/ EmptyAcquire(t)
        \/ EmptyRead(t)
        \/ EmptyWrite(t)
        \/ Acquire(t)
        \/ CountRead(t)
        \/ CountWrite(t)
        \/ CheckBetter(t)
        \/ Search(t)
        \/ DupCheck(t)
        \/ EvictCheck(t)
        \/ DeleteLast(t)
        \/ ResizeLast(t)
        \/ Insert(t)
        \/ Return(t)
        \/ CallRange(t)
        \/ AddRange(t)

(***************************************************************************)
(* IndexRange: size_t arithmetic                                           *)
(***************************************************************************)
\* number of values of size_t
Modulus == 2 ^ IndexBits
\* std::numeric_limits<size_t>::max()
SizeMax == Modulus - 1
\* a size_t result: the value modulo 2^IndexBits
Wrap(n) == n % Modulus
\* IndexRange::NA_INDEX
NA_INDEX == SizeMax

\* IndexRange(from, to)
IndexRange(from, to) == [from |-> from, to |-> to]
\* IndexRange(): from = 0, to = NA_INDEX
DefaultIndexRange == IndexRange(0, NA_INDEX)

(***************************************************************************)
(* IndexRange::overlappingWindows(windowWidth, windowsOverlap)             *)
(***************************************************************************)
\* line 232: windowWidth <= windowsOverlap
WidthTooSmall(windowWidth, windowsOverlap) == windowWidth <= windowsOverlap

\* RangeTooSmall with < for <=: a range as wide as the overlap passes
RangeTooSmall_Strict(r, windowsOverlap) == Wrap(r.to - r.from + 1) < windowsOverlap

\* line 236: (to - from + 1) <= windowsOverlap
RangeTooSmall(r, windowsOverlap) == Wrap(r.to - r.from + 1) <= windowsOverlap

\* line 245: (max() - x) < y
CountOverflows(x, y) == (SizeMax - x) < y

\* line 250: (x + y - 1) / y
NumberOfWindows(x, y) == Wrap(x + y - 1) \div y

\* line 255: currentIndex + windowsOverlap - 1 < to
LoopContinues(currentIndex, windowsOverlap, to) ==
    Wrap(currentIndex + windowsOverlap - 1) < to

\* lines 258-259: the window written in one iteration
NextWindow(currentIndex, windowWidth) ==
    IndexRange(currentIndex, Wrap(currentIndex + windowWidth - 1))

\* lines 253-260: the loop, from the state st = [i, currentIndex, windows, writes, ub].
\* i is the int i of the code (-1 before the first iteration), windows[k + 1] is
\* the code's windows[k], writes counts the assignments to each entry.  Writing
\* windows[i] with i no index of the vector is undefined and ends the run.
RECURSIVE WindowLoop(_, _, _, _)
WindowLoop(st, to, windowWidth, windowsOverlap) ==
    IF ~LoopContinues(st.currentIndex, windowsOverlap, to) THEN st
    ELSE LET i == st.i + 1
         IN  IF i >= Len(st.windows)
             THEN [st EXCEPT !.i = i, !.ub = "write outside the vector"]
             ELSE LET w == NextWindow(st.currentIndex, windowWidth)
                  IN  WindowLoop(
                          [st EXCEPT !.i = i,
                                     !.windows[i + 1] = w,
                                     !.writes[i + 1] = @ + 1,
                                     !.currentIndex = Wrap(w.to - windowsOverlap + 1)],
                          to, windowWidth, windowsOverlap)

\* the outcome of a call that throws
Thrown(error) == [res |-> error, windows |-> <<>>, writes |-> <<>>, ub |-> "none"]

\* lines 230-268.  res is "ok" for a returned vector, the error for a thrown
\* std::runtime_error, and "undefined" when the call executed an undefined
\* operation: nothing is known of its outcome then.
OverlappingWindows(r, windowWidth, windowsOverlap) ==
    IF WidthTooSmall(windowWidth, windowsOverlap)
    THEN Thrown("window width must be larger than the overlap width")
    ELSE IF RangeTooSmall(r, windowsOverlap)
    THEN Thrown("IndexRange width must be larger than the overlap width")
    ELSE LET x == Wrap(r.to - r.from - windowsOverlap + 1)
             y == Wrap(windowWidth - windowsOverlap)
         IN  IF CountOverflows(x, y)
             THEN Thrown("overflow when calculating the number of windows")
             ELSE LET numberOfWindows == NumberOfWindows(x, y)
                      st == WindowLoop(
                               [i |-> -1,
                                currentIndex |-> r.from,
                                windows |-> [k \in 1..numberOfWindows |-> DefaultIndexRange],
                                writes |-> [k \in 1..numberOfWindows |-> 0],
                                ub |-> "none"],
                               r.to, windowWidth, windowsOverlap)
                  IN  IF st.ub # "none"
                      THEN [res |-> "undefined", windows |-> st.windows,
                            writes |-> st.writes, ub |-> st.ub]
                      ELSE IF st.i = -1
                      THEN [res |-> "undefined", windows |-> st.windows,
                            writes |-> st.writes, ub |-> "read of windows[-1]"]
                      ELSE [res |-> "ok",
                            windows |-> IF st.windows[st.i + 1].to > r.to
                                        THEN [st.windows EXCEPT ![st.i + 1].to = r.to]
                                        ELSE st.windows,
                            writes |-> st.writes,
                            ub |-> "none"]

\* no outcome yet
Pending == [res |-> "pending", windows |-> <<>>, writes |-> <<>>, ub |-> "none"]

\* the index values
Indices == 0..SizeMax
\* the values windowWidth and windowsOverlap are drawn from
Widths == 0..MaxWidth

\* no call of overlappingWindows has been made
InitWin ==
    /\ wRange \in {IndexRange(f, t) : f \in Indices, t \in Indices}
    /\ wWidth \in Widths
    /\ wOverlap \in Widths
    /\ wOut = Pending

\* wRange.overlappingWindows(wWidth, wOverlap) is called
CallOverlappingWindows ==
    /\ wOut = Pending
    /\ wOut' = OverlappingWindows(wRange, wWidth, wOverlap)
    /\ UNCHANGED <<wRange, wWidth, wOverlap, storeVars, pairVars, libVars>>

(***************************************************************************)
(* IndexRange::getRangePairs(query, target, windowWidth, windowsOverlap)   *)
(***************************************************************************)
PairIndices == 0..MaxPairIndex

InitPairs ==
    /\ pQuery \in {IndexRange(f, t) : f \in PairIndices, t \in PairIndices}
    /\ pTarget \in {IndexRange(f, t) : f \in PairIndices, t \in PairIndices}
    /\ pWidth \in Widths
    /\ pOverlap \in Widths
    /\ queryWindows = <<>>
    /\ targetWindows = <<>>
    /\ pairs = <<>>
    /\ pI = 0
    /\ pQ = 1
    /\ pT = 1
    /\ pPc = "call"

\* std::pair<IndexRange, IndexRange>(): two default ranges
DefaultPair == <<DefaultIndexRange, DefaultIndexRange>>

\* lines 281-285: both window vectors are computed, pairs is allocated, i = 0.
\* An error thrown by overlappingWindows leaves getRangePairs, the query's first.
PairsWindows ==
    /\ pPc = "call"
    /\ LET q == OverlappingWindows(pQuery, pWidth, pOverlap)
           t == OverlappingWindows(pTarget, pWidth, pOverlap)
       IN  IF q.res # "ok"
           THEN /\ pPc' = q.res
                /\ UNCHANGED <<queryWindows, targetWindows, pairs>>
           ELSE IF t.res # "ok"
           THEN /\ pPc' = t.res
                /\ queryWindows' = q.windows
                /\ UNCHANGED <<targetWindows, pairs>>
           ELSE /\ pPc' = "loop"
                /\ queryWindows' = q.windows
                /\ targetWindows' = t.windows
                /\ pairs' = [k \in 1..(Len(q.windows) * Len(t.windows)) |-> DefaultPair]
    /\ pI' = 0
    /\ pQ' = 1
    /\ pT' = 1
    /\ UNCHANGED <<pQuery, pTarget, pWidth, pOverlap, storeVars, winVars, libVars>>

\* MakePair with the windows swapped
MakePair_Swapped(q, t) == <<t, q>>

\* the pair written by line 291 for the windows q and t of the two loops
MakePair(q, t) == <<q, t>>

\* lines 287-294: one iteration of the inner loop: pairs[i] = (q, t); i++
PairsStep ==
    /\ pPc = "loop"
    /\ pQ <= Len(queryWindows)
    /\ pairs' = [pairs EXCEPT ![pI + 1] = MakePair(queryWindows[pQ], targetWindows[pT])]
    /\ pI' = pI + 1
    /\ IF pT < Len(targetWindows)
       THEN /\ pT' = pT + 1
            /\ UNCHANGED pQ
       ELSE /\ pT' = 1
            /\ pQ' = pQ + 1
    /\ UNCHANGED <<pQuery, pTarget, pWidth, pOverlap, queryWindows, targetWindows, pPc,
                   storeVars, winVars, libVars>>

\* line 296: return pairs
PairsReturn ==
    /\ pPc = "loop"
    /\ pQ > Len(queryWindows)
    /\ pPc' = "ok"
    /\ UNCHANGED <<pQuery, pTarget, pWidth, pOverlap, queryWindows, targetWindows,
                   pairs, pI, pQ, pT, storeVars, winVars, libVars>>

(***************************************************************************)
(* IndexRange::operator+(shift) and IndexRange::operator-(shift)           *)
(***************************************************************************)
\* int is narrower than size_t
IntBits == IndexBits - 1
\* INT_MIN
IntMin == 0 - 2 ^ (IntBits - 1)
\* INT_MAX
IntMax == 2 ^ (IntBits - 1) - 1
\* the values of an int
Ints == IntMin..IntMax

\* std::abs on an int other than INT_MIN
Abs(n) == IF n < 0 THEN 0 - n ELSE n

\* std::min
Min(a, b) == IF b < a THEN b ELSE a

\* a returned range
Shifted(range) == [res |-> "ok", range |-> range, ub |-> "none"]

\* an undefined operation on int was executed
ShiftUndefined(ub) == [res |-> "undefined", range |-> DefaultIndexRange, ub |-> ub]

\* the last return of operator+, reached with shift < 0 and |shift| <= to:
\* from and to are size_t, shift is converted to size_t for the sum
ShiftDown(r, shift) ==
    IndexRange(Wrap(r.from - Min(r.from, Abs(shift))), Wrap(r.to + Wrap(shift)))

\* r + shift
OperatorPlus(r, shift) ==
    IF shift = 0 THEN Shifted(r)
    ELSE IF shift > 0
    THEN Shifted(IndexRange(Wrap(r.from + shift), Wrap(r.to + shift)))
    ELSE IF shift = IntMin THEN ShiftUndefined("abs of INT_MIN")
    ELSE IF r.to < Abs(shift) THEN Shifted(IndexRange(NA_INDEX, NA_INDEX))
    ELSE Shifted(ShiftDown(r, shift))

\* r - shift
OperatorMinus(r, shift) ==
    IF shift = IntMin THEN ShiftUndefined("negation of INT_MIN")
    ELSE OperatorPlus(r, 0 - shift)

\* no shift was made yet
NotShifted == [op |-> "none", res |-> "pending", range |-> DefaultIndexRange, ub |-> "none"]

\* the outcome of one operator call
ShiftOutcome(op, out) == [op |-> op, res |-> out.res, range |-> out.range, ub |-> out.ub]

InitShift ==
    /\ sRange \in {IndexRange(f, t) : f \in Indices, t \in Indices}
    /\ sShift \in Ints
    /\ sOut = NotShifted

\* sRange + sShift is evaluated
CallPlus ==
    /\ sOut = NotShifted
    /\ sOut' = ShiftOutcome("plus", OperatorPlus(sRange, sShift))
    /\ UNCHANGED <<sRange, sShift, storeVars, winVars, pairVars, listVars, loopVars, energyVars>>

\* sRange - sShift is evaluated
CallMinus ==
    /\ sOut = NotShifted
    /\ sOut' = ShiftOutcome("minus", OperatorMinus(sRange, sShift))
    /\ UNCHANGED <<sRange, sShift, storeVars, winVars, pairVars, listVars, loopVars, energyVars>>

(***************************************************************************)
(* IndexRangeList: covers, push_back, insert                               *)
(***************************************************************************)
\* IndexRange::isAscending
IsAscending(r) == r.from <= r.to

\* IndexRange::isDescending
IsDescending(r) == r.from >= r.to

\* IndexRange::operator<
LessThan_IndexRange(r1, r2) ==
    r1.from < r2.from \/ (r1.from = r2.from /\ r1.to < r2.to)

\* std::upper_bound(list.begin(), list.end(), value) by bisection;
\* positions are 1..Len, end() is Len + 1
RECURSIVE UpperBoundFrom(_, _, _, _)
UpperBoundFrom(l, value, first, len) ==
    IF len <= 0 THEN first
    ELSE LET half == len \div 2
             middle == first + half
         IN  IF LessThan_IndexRange(value, l[middle])
             THEN UpperBoundFrom(l, value, first, half)
             ELSE UpperBoundFrom(l, value, middle + 1, len - half - 1)

UpperBound(l, value) == UpperBoundFrom(l, value, 1, Len(l))

\* covers with the range before the found one never looked at
Covers_NoLookBack(l, index) ==
    IF l = <<>> THEN FALSE
    ELSE UpperBound(l, IndexRange(index, SizeMax)) # 1

\* IndexRangeList::covers(index) on the list l
Covers(l, index) ==
    IF l = <<>> THEN FALSE
    ELSE LET r == UpperBound(l, IndexRange(index, SizeMax))
         IN  IF r = 1 THEN FALSE
             ELSE index <= l[r - 1].to

\* the order check of push_back with the descending test left out
PushBackThrows_OrderOnly(debug, l, range) ==
    debug /\ l # <<>> /\ l[Len(l)].to > range.from

\* the checks of push_back, compiled in debug mode only
PushBackThrows(debug, l, range) ==
    /\ debug
    /\ \/ IsDescending(range)
       \/ l # <<>> /\ l[Len(l)].to > range.from

\* the check of insert, compiled in debug mode only
InsertThrows(debug, range) == debug /\ IsDescending(range)

\* the position insert returns
InsertPosition(l, range) == IF l = <<>> THEN 1 ELSE UpperBound(l, range)

\* one finished call of push_back or insert (pos: the returned iterator)
ListCall(op, range, res, pos) == [op |-> op, range |-> range, res |-> res, pos |-> pos]

\* covers was not called on the list as it is
NotCovered == [index |-> 0, res |-> "pending"]

ListIndices == 0..MaxListIndex

ListRanges == {IndexRange(f, t) : f \in ListIndices, t \in ListIndices}

InitList ==
    /\ debugMode \in BOOLEAN
    /\ list = <<>>
    /\ lCalls = <<>>
    /\ cOut = NotCovered

\* list.covers(index)
CallCovers ==
    \E index \in ListIndices :
        /\ cOut' = [index |-> index, res |-> IF Covers(list, index) THEN "true" ELSE "false"]
        /\ UNCHANGED <<debugMode, list, lCalls, storeVars, winVars, pairVars, shiftVars, loopVars, energyVars>>

\* list.push_back(range)
CallPushBack ==
    \E range \in ListRanges :
        /\ Len(lCalls) < MaxListCalls
        /\ IF PushBackThrows(debugMode, list, range)
           THEN /\ lCalls' = Append(lCalls, ListCall("push_back", range, "thrown", 0))
                /\ list' = list
           ELSE /\ lCalls' = Append(lCalls, ListCall("push_back", range, "ok", 0))
                /\ list' = Append(list, range)
        /\ cOut' = NotCovered
        /\ UNCHANGED <<debugMode, storeVars, winVars, pairVars, shiftVars, loopVars, energyVars>>

\* list.insert(range)
CallInsert ==
    \E range \in ListRanges :
        /\ Len(lCalls) < MaxListCalls
        /\ IF InsertThrows(debugMode, range)
           THEN /\ lCalls' = Append(lCalls, ListCall("insert", range, "thrown", 0))
                /\ list' = list
           ELSE LET r == InsertPosition(list, range)
                IN  /\ lCalls' = Append(lCalls, ListCall("insert", range, "ok", r))
                    /\ list' = InsertAt(list, r, range)
        /\ cOut' = NotCovered
        /\ UNCHANGED <<debugMode, storeVars, winVars, pairVars, shiftVars, loopVars, energyVars>>

(***************************************************************************)
(* InteractionEnergy: isAllowedLoopRegion, isValidInternalLoop             *)
(***************************************************************************)
\* the sequences the energy objects are built on
SeqPool == {<<"A", "A", "U">>, <<"U", "N", "A">>, <<"U", "A">>}

\* the values of maxInternalLoopSize, the largest size_t included
LoopSizes == {0, 1, SizeMax}

\* the boundaries handed to the predicates; MaxSeqLen lies behind every sequence
LoopIndices == 0..MaxSeqLen

\* RnaSequence::areComplementary(s1, s2, p1, p2)
AreComplementary(s1, s2, p1, p2) ==
    /\ p1 < Len(s1)
    /\ p2 < Len(s2)
    /\ <<s1[p1 + 1], s2[p2 + 1]>> \in
          {<<"A", "U">>, <<"U", "A">>, <<"G", "C">>, <<"C", "G">>, <<"G", "U">>, <<"U", "G">>}

\* InteractionEnergy::isAllowedLoopRegion(seq, i, j, maxInternalLoopSize);
\* position i of the sequence is seq[i + 1]
IsAllowedLoopRegion(seq, i, j, maxInternalLoopSize) ==
    /\ i < Len(seq)
    /\ j < Len(seq)
    /\ seq[i + 1] # "N"
    /\ seq[j + 1] # "N"
    /\ i <= j
    /\ Wrap(j - i) <= Wrap(1 + maxInternalLoopSize)

\* InteractionEnergy::isValidInternalLoop(i1, j1, i2, j2)
IsValidInternalLoop(i1, j1, i2, j2) ==
    /\ Wrap(j1 - i1) > 0 /\ Wrap(j2 - i2) > 0
    /\ AreComplementary(seq1, seq2, i1, i2)
    /\ AreComplementary(seq1, seq2, j1, j2)
    /\ IsAllowedLoopRegion(seq1, i1, j1, maxInternalLoopSize1)
    /\ IsAllowedLoopRegion(seq2, i2, j2, maxInternalLoopSize2)

\* no predicate was evaluated yet
NotAsked == [fn |-> "none", res |-> FALSE, energy |-> 0]

InitLoop ==
    /\ seq1 \in SeqPool
    /\ seq2 \in SeqPool
    /\ maxInternalLoopSize1 \in LoopSizes
    /\ maxInternalLoopSize2 \in LoopSizes
    /\ qI1 \in LoopIndices
    /\ qJ1 \in LoopIndices
    /\ qI2 \in LoopIndices
    /\ qJ2 \in LoopIndices
    /\ qOut = NotAsked

\* isAllowedLoopRegion(seq1, qI1, qJ1, maxInternalLoopSize1) is evaluated
CallIsAllowedLoopRegion ==
    /\ qOut = NotAsked
    /\ qOut' = [fn |-> "isAllowedLoopRegion",
                res |-> IsAllowedLoopRegion(seq1, qI1, qJ1, maxInternalLoopSize1),
                energy |-> 0]
    /\ UNCHANGED <<seq1, seq2, maxInternalLoopSize1, maxInternalLoopSize2,
                   qI1, qJ1, qI2, qJ2, storeVars, winVars, pairVars, shiftVars, listVars, energyVars>>

\* isValidInternalLoop(qI1, qJ1, qI2, qJ2) is evaluated
CallIsValidInternalLoop ==
    /\ qOut = NotAsked
    /\ qOut' = [fn |-> "isValidInternalLoop",
                res |-> IsValidInternalLoop(qI1, qJ1, qI2, qJ2),
                energy |-> 0]
    /\ UNCHANGED <<seq1, seq2, maxInternalLoopSize1, maxInternalLoopSize2,
                   qI1, qJ1, qI2, qJ2, storeVars, winVars, pairVars, shiftVars, listVars, energyVars>>

(***************************************************************************)
(* InteractionEnergy: getE, getE_SSE.  A value of E_type is an integer     *)
(* number of ticks; Unit ticks are the energy RT * ln 2, so that the       *)
(* Boltzmann weight exp(-e / RT) of e is 2 ^ (-e / Unit).  A probability   *)
(* is a number of PrOne-ths.                                               *)
(***************************************************************************)
\* the probability 1
PrOne == 2 ^ PrBits

\* ticks per energy RT * ln 2; a product of two probabilities is in Unit-ths
Unit == PrOne * PrOne

\* the infinite sentinel of E_type
E_INF == Unit * Modulus * Modulus

\* E_isNotINF(e)
E_isNotINF(e) == e < E_INF

\* size1() and size2(): both sequences have MaxSeqLen positions
Size1 == MaxSeqLen
Size2 == MaxSeqLen

\* [i, j] is a region of a sequence with size positions
IsRegion(i, j, size) == i <= j /\ j < size

\* getED1(i1, j1) and getED2(i2, j2): the accessibility penalties of the
\* collaborators, growing with the length of the region
GetED1(i1, j1) == Unit * (j1 - i1 + 1)
GetED2(i2, j2) == Unit * 2 * (j2 - i2 + 1)

\* the hooks of InteractionEnergyBasePair
BasePair_danglingLeft(i1, i2) == 0
BasePair_danglingRight(j1, j2) == 0
BasePair_endLeft(i1, i2) == 0
BasePair_endRight(j1, j2) == 0

\* the hooks of a concrete model with dangling end and helix end terms
Other_danglingLeft(i1, i2) == 0 - Unit * (1 + i1)
Other_danglingRight(j1, j2) == 0 - Unit * (1 + j2)
Other_endLeft(i1, i2) == Unit * ((i1 + i2) % 2)
Other_endRight(j1, j2) == Unit * ((j1 + j2 + 1) % 2)

\* the virtual calls of the hooks
GetE_danglingLeft(model, i1, i2) ==
    IF model = "BasePair" THEN BasePair_danglingLeft(i1, i2) ELSE Other_danglingLeft(i1, i2)
GetE_danglingRight(model, j1, j2) ==
    IF model = "BasePair" THEN BasePair_danglingRight(j1, j2) ELSE Other_danglingRight(j1, j2)
GetE_endLeft(model, i1, i2) ==
    IF model = "BasePair" THEN BasePair_endLeft(i1, i2) ELSE Other_endLeft(i1, i2)
GetE_endRight(model, j1, j2) ==
    IF model = "BasePair" THEN BasePair_endRight(j1, j2) ELSE Other_endRight(j1, j2)

\* getBoltzmannWeight(e) = exp(-e / getRT()), in PrOne-ths, rounded down
GetBoltzmannWeight(e) ==
    IF e <= 0 THEN PrOne * 2 ^ ((0 - e) \div Unit)
    ELSE PrOne \div 2 ^ (e \div Unit)

\* std::max(0.0, std::min(1.0, weight))
ClampProbability(weight) ==
    LET capped == IF weight < PrOne THEN weight ELSE PrOne
    IN  IF 0 < capped THEN capped ELSE 0

\* getPr_danglingLeft(i1, j1, i2, j2), in Unit-ths
GetPr_danglingLeft(i1, j1, i2, j2) ==
    LET probDangle1 ==
            IF i1 > 0
            THEN ClampProbability(GetBoltzmannWeight(GetED1(i1 - 1, j1) - GetED1(i1, j1)))
            ELSE PrOne
        probDangle2 ==
            IF i2 > 0
            THEN ClampProbability(GetBoltzmannWeight(GetED2(i2 - 1, j2) - GetED2(i2, j2)))
            ELSE PrOne
    IN  probDangle1 * probDangle2

\* getPr_danglingRight(i1, j1, i2, j2), in Unit-ths
GetPr_danglingRight(i1, j1, i2, j2) ==
    LET probDangle1 ==
            IF Wrap(j1 + 1) < Size1
            THEN ClampProbability(GetBoltzmannWeight(GetED1(i1, j1 + 1) - GetED1(i1, j1)))
            ELSE PrOne
        probDangle2 ==
            IF Wrap(j2 + 1) < Size2
            THEN ClampProbability(GetBoltzmannWeight(GetED2(i2, j2 + 1) - GetED2(i2, j2)))
            ELSE PrOne
    IN  probDangle1 * probDangle2

\* getE with the dangling end terms added unweighted
GetE_Unweighted(model, i1, j1, i2, j2, hybridE) ==
    IF E_isNotINF(hybridE)
    THEN hybridE + GetED1(i1, j1) + GetED2(i2, j2)
         + GetE_danglingLeft(model, i1, i2) + GetE_danglingRight(model, j1, j2)
         + GetE_endLeft(model, i1, i2) + GetE_endRight(model, j1, j2)
    ELSE E_INF

\* InteractionEnergy::getE(i1, j1, i2, j2, hybridE)
GetE(model, i1, j1, i2, j2, hybridE) ==
    IF E_isNotINF(hybridE)
    THEN hybridE + GetED1(i1, j1) + GetED2(i2, j2)
         + (GetE_danglingLeft(model, i1, i2) * GetPr_danglingLeft(i1, j1, i2, j2)) \div Unit
         + (GetE_danglingRight(model, j1, j2) * GetPr_danglingRight(i1, j1, i2, j2)) \div Unit
         + GetE_endLeft(model, i1, i2) + GetE_endRight(model, j1, j2)
    ELSE E_INF

\* the lanes of a 4-wide vector
Lanes == 1..4

\* an index vector holds four packed values of LaneBits bits each
LaneBits == IndexBits \div 2

\* the index vector of one field of the four candidates
PackedIndex(ls, field) == [k \in Lanes |-> ls[k][field]]

\* v[k] on an index vector: __m128i has two elements of twice LaneBits
\* bits, element k holds the packed values 2k and 2k + 1
Element(v, k) == v[2 * k + 1] + v[2 * k + 2] * 2 ^ LaneBits

Quad(i1, j1, i2, j2) == [i1 |-> i1, j1 |-> j1, i2 |-> i2, j2 |-> j2]

\* what i1[k], j1[k], i2[k], j2[k] read for k = 0 and k = 1
ReadQuad(ls, k) ==
    Quad(Element(PackedIndex(ls, "i1"), k), Element(PackedIndex(ls, "j1"), k),
         Element(PackedIndex(ls, "i2"), k), Element(PackedIndex(ls, "j2"), k))

\* the accessibility collaborators answer for regions of their sequence
ReadableQuad(q) == IsRegion(q.i1, q.j1, Size1) /\ IsRegion(q.i2, q.j2, Size2)

\* one lane of result after the additions of getE_SSE
SSE_Sum(model, q) ==
    GetED1(q.i1, q.j1) + GetED2(q.i2, q.j2)
    + GetE_endLeft(model, q.i1, q.i2) + GetE_endRight(model, q.j1, q.j2)
    + (GetE_danglingLeft(model, q.i1, q.i2) * GetPr_danglingLeft(q.i1, q.j1, q.i2, q.j2)) \div Unit
    + (GetE_danglingRight(model, q.j1, q.j2) * GetPr_danglingRight(q.i1, q.j1, q.i2, q.j2)) \div Unit

\* one lane of _mm_or_ps(_mm_and_ps(infCompare, inf), _mm_andnot_ps(infCompare, result))
SSE_Select(hybridE, sum) == IF hybridE = E_INF THEN E_INF ELSE sum

\* InteractionEnergy::getE_SSE(i1, j1, i2, j2, hybridE) on the candidates ls.
\* The subscripts 2 and 3 lie behind the two elements of an index vector:
\* what they read is undefined, here the quadruples g3 and g4.
GetE_SSE(model, ls, g3, g4) ==
    LET reads == <<ReadQuad(ls, 0), ReadQuad(ls, 1), g3, g4>>
    IN  IF \A k \in Lanes : ReadableQuad(reads[k])
        THEN [res |-> "ok", reads |-> reads,
              values |-> [k \in Lanes |->
                             SSE_Select(ls[k].hybridE, SSE_Sum(model, reads[k]))]]
        ELSE [res |-> "undefined", reads |-> reads, values |-> <<>>]

\* the candidates of the caller
QuadPool == {Quad(0, 0, 0, 0), Quad(1, 2, 1, 1)}

\* hybridization energies: zero, a finite one, the infinite sentinel
HybridEs == {0, 0 - 2 * Unit, E_INF}

\* what a subscript behind the end of an index vector may read
GarbageQuads == QuadPool \cup {Quad(SizeMax, SizeMax, SizeMax, SizeMax)}

Lane(q, hybridE) ==
    [i1 |-> q.i1, j1 |-> q.j1, i2 |-> q.i2, j2 |-> q.j2, hybridE |-> hybridE]

\* neither getE nor getE_SSE was called
NotEvaluated == [fn |-> "none", lane |-> 0, res |-> "pending", reads |-> <<>>, values |-> <<>>]

InitEnergy ==
    /\ energyModel \in {"BasePair", "Other"}
    /\ lanes \in [Lanes -> {Lane(q, h) : q \in QuadPool, h \in HybridEs}]
    /\ eOut = NotEvaluated

\* getE on the candidate of one lane
CallGetE ==
    \E k \in Lanes :
        /\ eOut' = [fn |-> "getE", lane |-> k, res |-> "ok", reads |-> <<>>,
                    values |-> <<GetE(energyModel, lanes[k].i1, lanes[k].j1,
                                      lanes[k].i2, lanes[k].j2, lanes[k].hybridE)>>]
        /\ UNCHANGED <<energyModel, lanes, storeVars, winVars, pairVars,
                       shiftVars, listVars, loopVars>>

\* getE_SSE on the four candidates
CallGetE_SSE ==
    \E g3 \in GarbageQuads, g4 \in GarbageQuads :
        LET out == GetE_SSE(energyModel, lanes, g3, g4)
        IN  /\ eOut' = [fn |-> "getE_SSE", lane |-> 0, res |-> out.res,
                        reads |-> out.reads, values |-> out.values]
            /\ UNCHANGED <<energyModel, lanes, storeVars, winVars, pairVars,
                           shiftVars, listVars, loopVars>>

(***************************************************************************)
(* InteractionEnergyBasePair: getE_init, getBestE_interLoop,               *)
(* getE_interLeft                                                          *)
(***************************************************************************)
\* InteractionEnergyBasePair::getE_init(): -1.0
GetE_init == 0 - Unit

\* InteractionEnergyBasePair::getBestE_interLoop()
GetBestE_interLoop == GetE_init

\* getE_interLeft with the loop boundaries never looked at
GetE_interLeft_AlwaysGain(i1, j1, i2, j2) == GetBestE_interLoop

\* InteractionEnergyBasePair::getE_interLeft(i1, j1, i2, j2)
GetE_interLeft(i1, j1, i2, j2) ==
    IF IsValidInternalLoop(i1, j1, i2, j2)
    THEN GetBestE_interLoop
    ELSE E_INF

\* getE_interLeft(qI1, qJ1, qI2, qJ2) is evaluated
CallGetE_interLeft ==
    /\ qOut = NotAsked
    /\ qOut' = [fn |-> "getE_interLeft",
                res |-> FALSE,
                energy |-> GetE_interLeft(qI1, qJ1, qI2, qJ2)]
    /\ UNCHANGED <<seq1, seq2, maxInternalLoopSize1, maxInternalLoopSize2,
                   qI1, qJ1, qI2, qJ2, storeVars, winVars, pairVars, shiftVars, listVars, energyVars>>

(***************************************************************************)
(* Specifications.  Each runs one component; the others stay as            *)
(* constructed.                                                            *)
(***************************************************************************)
\* a store that is never used
StoreUnused == InitStore /\ maxToStore = 0

\* overlappingWindows is never called
WinUnused ==
    /\ wRange = DefaultIndexRange
    /\ wWidth = 0
    /\ wOverlap = 0
    /\ wOut = Pending

\* getRangePairs is never called
PairsUnused ==
    /\ pQuery = DefaultIndexRange
    /\ pTarget = DefaultIndexRange
    /\ pWidth = 0
    /\ pOverlap = 0
    /\ queryWindows = <<>>
    /\ targetWindows = <<>>
    /\ pairs = <<>>
    /\ pI = 0
    /\ pQ = 1
    /\ pT = 1
    /\ pPc = "unused"

\* operator+ and operator- are never called
ShiftUnused ==
    /\ sRange = DefaultIndexRange
    /\ sShift = 0
    /\ sOut = NotShifted

\* no IndexRangeList is used
ListUnused ==
    /\ debugMode = FALSE
    /\ list = <<>>
    /\ lCalls = <<>>
    /\ cOut = NotCovered

\* no loop predicate is evaluated
LoopUnused ==
    /\ seq1 = <<>>
    /\ seq2 = <<>>
    /\ maxInternalLoopSize1 = 0
    /\ maxInternalLoopSize2 = 0
    /\ qI1 = 0
    /\ qJ1 = 0
    /\ qI2 = 0
    /\ qJ2 = 0
    /\ qOut = NotAsked

\* neither getE nor getE_SSE is called
EnergyUnused ==
    /\ energyModel = "BasePair"
    /\ lanes = [k \in Lanes |-> Lane(Quad(0, 0, 0, 0), 0)]
    /\ eOut = NotEvaluated

\* the components added to the store and the windows
LibUnused == ShiftUnused /\ ListUnused /\ LoopUnused /\ EnergyUnused

\* the store under concurrent reporters
Init == InitStore /\ WinUnused /\ PairsUnused /\ LibUnused

Next == NextStore

Spec == Init /\ [][Next]_vars

\* the store from its construction to its destruction: calls of add by two
\* threads, then the destructor
NextLifetime == NextStore \/ NextDestructor

SpecLifetime == Init /\ [][NextLifetime]_vars

\* overlappingWindows on every range, width and overlap of the bounds
InitWindows == StoreUnused /\ InitWin /\ PairsUnused /\ LibUnused

NextWindows == CallOverlappingWindows

SpecWindows == InitWindows /\ [][NextWindows]_vars

\* getRangePairs on every query, target, width and overlap of the bounds
InitRangePairs == StoreUnused /\ WinUnused /\ InitPairs /\ LibUnused

NextRangePairs ==
    \/ PairsWindows
    \/ PairsStep
    \/ PairsReturn

SpecRangePairs == InitRangePairs /\ [][NextRangePairs]_vars

\* operator+ and operator- on every range and shift of the bounds
InitShifts ==
    StoreUnused /\ WinUnused /\ PairsUnused /\ InitShift /\ ListUnused /\ LoopUnused /\ EnergyUnused

NextShifts == CallPlus \/ CallMinus

SpecShifts == InitShifts /\ [][NextShifts]_vars

\* an IndexRangeList under push_back, insert and covers, in either build
InitLists ==
    StoreUnused /\ WinUnused /\ PairsUnused /\ ShiftUnused /\ InitList /\ LoopUnused /\ EnergyUnused

NextLists == CallCovers \/ CallPushBack \/ CallInsert

SpecLists == InitLists /\ [][NextLists]_vars

\* the loop predicates on every pair of sequences, bounds and boundaries
InitLoops ==
    StoreUnused /\ WinUnused /\ PairsUnused /\ ShiftUnused /\ ListUnused /\ InitLoop /\ EnergyUnused

NextLoops == CallIsAllowedLoopRegion \/ CallIsValidInternalLoop \/ CallGetE_interLeft

SpecLoops == InitLoops /\ [][NextLoops]_vars

\* getE and getE_SSE on four candidates, under either energy model
InitEnergies ==
    /\ StoreUnused /\ WinUnused /\ PairsUnused
    /\ ShiftUnused /\ ListUnused /\ LoopUnused /\ InitEnergy

NextEnergies == CallGetE \/ CallGetE_SSE

SpecEnergies == InitEnergies /\ [][NextEnergies]_vars

(***************************************************************************)
(* Properties of the store                                                 *)
(***************************************************************************)
\* the elements of a sequence
Range(s) == {s[i] : i \in 1..Len(s)}

\* the elements of a set of rank keys, best (lowest) first
RECURSIVE SortedSeq(_)
SortedSeq(S) ==
    IF S = {} THEN <<>>
    ELSE LET m == CHOOSE x \in S : \A y \in S : x <= y
         IN  <<m>> \o SortedSeq(S \ {m})

\* the k best-ranked keys of S, or all of S if it has fewer
BestRanked(S, k) ==
    LET all == SortedSeq(S)
    IN  SubSeq(all, 1, IF Len(all) < k THEN Len(all) ELSE k)

\* the positions of add inside a critical section
CriticalPcs == {"emptyRead", "emptyWrite", "countRead", "countWrite", "check", "search",
                "dup", "evict", "delete", "resize", "insert",
                "retRejected", "retDuplicate", "retStored", "failed"}

\* the pointers whose copy is allocated and not released
LivePointers == {p \in 1..Len(heap) : heap[p].st = "live"}

\* C1: whenever no add call is inside its critical section, the storage holds
\* exactly the min(maxToStore, d) best-ranked of the d distinct non-empty
\* interactions reported by the calls that have returned, and at every moment
\* the stored interactions are in strictly ascending rank order.
C1_BestRankedRetained ==
    /\ \A i, j \in 1..Len(storage) : i < j => StoredKeys[i] < StoredKeys[j]
    /\ lock = NoThread => StoredKeys = BestRanked(doneKeys, maxToStore)

\* C1 witness: more distinct interactions than maxToStore = 2 were reported and
\* the storage is full
C1_Witness ==
    /\ lock = NoThread
    /\ maxToStore = 2
    /\ Cardinality(doneKeys) = 3
    /\ Len(storage) = 2

\* C2: at most one thread is inside a critical section of add; whenever none is,
\* the storage and the counter are what the returned calls produce in any serial
\* order (the best-ranked maxToStore of their interactions, one count per call);
\* the stored pointers are distinct and are exactly the live copies, no copy is
\* released twice and no iterator is used after another thread's change.
C2_CriticalSectionSerializes ==
    /\ Cardinality({t \in Threads : pc[t] \in CriticalPcs}) <= 1
    /\ \A t \in Threads : pc[t] \in CriticalPcs => lock = t
    /\ lock = NoThread =>
          /\ StoredKeys = BestRanked(doneKeys, maxToStore)
          /\ reportedInteractions = doneCalls
          /\ LivePointers = Range(storage)
    /\ Cardinality(Range(storage)) = Len(storage)
    /\ \A p \in 1..Len(heap) : heap[p].st # "released twice"
    /\ "invalid iterator" \notin ubEvents

\* C2 witness: one thread has evicted and inserted inside the critical section
\* while the other waits at its entry
C2_Witness ==
    \E t, u \in Threads :
        /\ t # u
        /\ pc[t] = "retStored"
        /\ pc[u] = "lock"
        /\ \E p \in 1..Len(heap) : heap[p].st = "released"

\* C3: the reported counter never decreases, and whenever no call is inside its
\* critical section it equals the number of add(Interaction) calls that have
\* returned, whatever became of their interactions.
C3_CounterCountsEveryCall ==
    /\ [][reportedInteractions' >= reportedInteractions]_vars
    /\ [](lock = NoThread => reportedInteractions = doneCalls)

\* C3 witness: four calls were counted: a stored one, an empty one and one
\* without effect on the storage have returned, and one is now rejected as not
\* better than the worst entry
C3_Witness ==
    \E t \in Threads :
        /\ pc[t] = "retRejected"
        /\ reportedInteractions = 4
        /\ doneCalls = 3
        /\ storage # <<>>
        /\ maxToStore = 1
        /\ Cardinality(doneKeys) = 1
        /\ \E u \in Threads : u # t /\ pc[u] = "idle" /\ IsEmpty(arg[u])
                                /\ result[u] = "returned"

\* C4: every step of an add of an empty interaction leaves the storage and the
\* stored copies unchanged; its last step raises the counter by one and no
\* other step of it changes the counter.
C4_EmptyAddOnlyCounts ==
    [][\A t \in Threads :
          (pc[t] \in {"emptyLock", "emptyRead", "emptyWrite"} /\ pc'[t] # pc[t]) =>
              /\ storage' = storage
              /\ heap' = heap
              /\ reportedInteractions' =
                    IF pc'[t] = "idle" THEN reportedInteractions + 1
                    ELSE reportedInteractions]_vars

\* C4 witness: an add of an empty interaction has returned on a non-empty storage
C4_Witness ==
    \E t \in Threads :
        /\ pc[t] = "idle"
        /\ result[t] = "returned"
        /\ IsEmpty(arg[t])
        /\ storage # <<>>
        /\ reportedInteractions >= 2

\* C5: while the rank key of the interaction a thread reports is the key of a
\* stored entry, no step of its add changes the storage or the stored copies,
\* and the call goes on to neither eviction nor insertion.
C5_DuplicateLeavesStorage ==
    [][\A t \in Threads :
          (/\ pc[t] \in {"lock", "countRead", "countWrite", "check", "search", "dup"}
           /\ pc'[t] # pc[t]
           /\ arg[t] \in Range(StoredKeys)) =>
              /\ storage' = storage
              /\ heap' = heap
              /\ pc'[t] \notin {"evict", "delete", "resize", "insert", "retStored"}]_vars

\* C5 witness: a duplicate was found by the duplicate check with the storage at
\* capacity
C5_Witness ==
    \E t \in Threads :
        /\ pc[t] = "retDuplicate"
        /\ maxToStore = 2
        /\ Len(storage) = 2
        /\ arg[t] \in Range(StoredKeys)

\* C6: add(InteractionRange) ends with the not-implemented error and changes
\* neither the storage, nor the stored copies, nor the reported counter.
C6_RangeNotImplemented ==
    [][\A t \in Threads :
          (pc[t] = "range" /\ pc'[t] # "range") =>
              /\ result'[t] = NotImplemented
              /\ storage' = storage
              /\ heap' = heap
              /\ reportedInteractions' = reportedInteractions]_vars

\* C6 witness: add(InteractionRange) has failed on a store that holds entries
C6_Witness ==
    \E t \in Threads :
        /\ pc[t] = "idle"
        /\ result[t] = NotImplemented
        /\ storage # <<>>
        /\ reportedInteractions >= 1

(***************************************************************************)
(* Properties of overlappingWindows and getRangePairs                      *)
(***************************************************************************)
\* the call has been made
WindowsCalled == wOut.res # "pending"

\* the preconditions of overlappingWindows, on the numbers themselves
ValidWindowCall(r, windowWidth, windowsOverlap) ==
    /\ r.from <= r.to
    /\ windowWidth > windowsOverlap
    /\ (r.to - r.from + 1) > windowsOverlap

\* windows w tile the range r: the first starts at r.from, the last ends at r.to,
\* every window but the last spans windowWidth positions, and each starts
\* windowsOverlap positions before the end of the one before
TilesRange(w, r, windowWidth, windowsOverlap) ==
    /\ Len(w) >= 1
    /\ w[1].from = r.from
    /\ w[Len(w)].to = r.to
    /\ \A k \in 1..(Len(w) - 1) :
          /\ w[k].to - w[k].from + 1 = windowWidth
          /\ w[k + 1].from = w[k].to - windowsOverlap + 1

\* C7: for every range with from <= to and every width > overlap with the range
\* longer than the overlap, overlappingWindows has a defined outcome, and the
\* windows it returns tile the range.
C7_WindowsTileRange ==
    (WindowsCalled /\ ValidWindowCall(wRange, wWidth, wOverlap)) =>
        /\ wOut.res # "undefined"
        /\ wOut.res = "ok" => TilesRange(wOut.windows, wRange, wWidth, wOverlap)

\* C8: overlappingWindows throws and returns no windows when the width is at
\* most the overlap, or when the range length to - from + 1 (a size_t) is at
\* most the overlap.
C8_PreconditionErrors ==
    (/\ WindowsCalled
     /\ \/ wWidth <= wOverlap
        \/ Wrap(wRange.to - wRange.from + 1) <= wOverlap) =>
        /\ wOut.res \in {"window width must be larger than the overlap width",
                         "IndexRange width must be larger than the overlap width"}
        /\ wOut.windows = <<>>

\* C8 witness: the width exceeds the overlap and the range is exactly as long as
\* the overlap
C8_Witness ==
    /\ WindowsCalled
    /\ wWidth > wOverlap
    /\ wRange.from <= wRange.to
    /\ wRange.to - wRange.from + 1 = wOverlap
    /\ wOut.res = "IndexRange width must be larger than the overlap width"

\* ceil(a / b) for a >= 0, b > 0
CeilDiv(a, b) == (a + b - 1) \div b

\* C9: every valid call that throws no error returns a vector of
\* ceil((length - overlap) / (width - overlap)) windows, each assigned exactly
\* once by the loop, without an access outside the vector.
C9_EveryWindowAssignedOnce ==
    (/\ WindowsCalled
     /\ ValidWindowCall(wRange, wWidth, wOverlap)
     /\ wOut.res \in {"ok", "undefined"}) =>
        /\ wOut.res = "ok"
        /\ wOut.ub = "none"
        /\ Len(wOut.windows) =
              CeilDiv(wRange.to - wRange.from + 1 - wOverlap, wWidth - wOverlap)
        /\ \A k \in 1..Len(wOut.writes) : wOut.writes[k] = 1

\* C10: getRangePairs returns |Q| * |T| pairs, Q and T being the windows of
\* query and of target, and the pair at position a * |T| + b (from 0) is
\* (Q[a], T[b]).
C10_PairsAreCrossProduct ==
    pPc = "ok" =>
        LET Q == OverlappingWindows(pQuery, pWidth, pOverlap).windows
            T == OverlappingWindows(pTarget, pWidth, pOverlap).windows
        IN  /\ Len(pairs) = Len(Q) * Len(T)
            /\ \A a \in 0..(Len(Q) - 1) : \A b \in 0..(Len(T) - 1) :
                  pairs[a * Len(T) + b + 1] = <<Q[a + 1], T[b + 1]>>

\* C10 witness: a returned cross product of three query windows and two
\* different target windows
C10_Witness ==
    /\ pPc = "ok"
    /\ Len(queryWindows) = 3
    /\ Len(targetWindows) = 2
    /\ targetWindows[1] # targetWindows[2]
    /\ Len(pairs) = 6

\* what the four cases of a shift by s give, on the unbounded integers
ShiftExpected(r, s) ==
    IF s = 0 THEN r
    ELSE IF s > 0 THEN [from |-> r.from + s, to |-> r.to + s]
    ELSE IF Abs(s) <= r.to
    THEN [from |-> r.from - Min(r.from, Abs(s)), to |-> r.to - Abs(s)]
    ELSE IndexRange(NA_INDEX, NA_INDEX)

\* C11: a shift by a signed offset s returns (from + s, to + s) for s > 0,
\* (from - min(from, |s|), to - |s|) for s < 0 with |s| <= to,
\* (NA_INDEX, NA_INDEX) for s < 0 with |s| > to, the range itself for s = 0,
\* and operator-(s) returns what operator+(-s) returns.
C11_ShiftBySignedOffset ==
    /\ sOut.op = "plus" =>
          /\ sOut.res = "ok"
          /\ sOut.range = ShiftExpected(sRange, sShift)
    /\ sOut.op = "minus" =>
          /\ sOut.res = "ok"
          /\ sOut.range = ShiftExpected(sRange, 0 - sShift)
          /\ sOut = ShiftOutcome("minus", OperatorPlus(sRange, 0 - sShift))

\* the calls made on the list so far are all calls of op
OnlyCalls(op) == \A i \in 1..Len(lCalls) : lCalls[i].op = op

\* index lies in [from, to] of a range handed to one of the calls made so far
InCalledRange(index) ==
    \E i \in 1..Len(lCalls) :
        lCalls[i].range.from <= index /\ index <= lCalls[i].range.to

\* index lies in [from, to] of a stored range
InStoredRange(index) ==
    \E i \in 1..Len(list) : list[i].from <= index /\ index <= list[i].to

\* the ranges of the calls made so far are ascending, pairwise
\* non-overlapping and in ascending order
AscendingDisjointCalls ==
    /\ \A i \in 1..Len(lCalls) : IsAscending(lCalls[i].range)
    /\ \A i, j \in 1..Len(lCalls) :
          i < j => lCalls[i].range.to < lCalls[j].range.from

\* the last covers call answered as expected
CoversAnswered(expected(_)) ==
    cOut # NotCovered => (cOut.res = "true" <=> expected(cOut.index))

\* C12: on a list built by push_back calls with ascending, pairwise
\* non-overlapping ranges in ascending order, covers(x) is true exactly when
\* x lies in one of the pushed ranges; on an empty list covers is false.
C12_CoversAfterPushBack ==
    (OnlyCalls("push_back") /\ AscendingDisjointCalls) =>
        /\ \A x \in ListIndices : Covers(list, x) <=> InCalledRange(x)
        /\ CoversAnswered(InCalledRange)

\* the ranges of the calls made so far are all ascending
AscendingCalls == \A i \in 1..Len(lCalls) : IsAscending(lCalls[i].range)

\* C13: on a list built by insert calls with ascending ranges, overlapping
\* and nested ones included, covers(index) is true iff index lies within
\* [from, to] of some stored range.
C13_CoversAfterInsert ==
    (OnlyCalls("insert") /\ AscendingCalls) =>
        /\ \A x \in ListIndices : Covers(list, x) <=> InStoredRange(x)
        /\ CoversAnswered(InStoredRange)

\* the list is sorted ascending by (from, to)
SortedList(l) ==
    \A i, j \in 1..Len(l) : i < j => ~LessThan_IndexRange(l[j], l[i])

\* how often the range r occurs in the list l
Occurrences(l, r) == Cardinality({i \in 1..Len(l) : l[i] = r})

\* how often the range r was handed to a call
Called(r) == Cardinality({i \in 1..Len(lCalls) : lCalls[i].range = r})

\* the last call returned the position of its range, behind the equal ones
LastCallPosition ==
    lCalls # <<>> =>
        LET c == lCalls[Len(lCalls)]
        IN  /\ c.res = "ok"
            /\ c.pos \in 1..Len(list)
            /\ list[c.pos] = c.range
            /\ \A k \in 1..Len(list) : list[k] = c.range => k <= c.pos

\* C14: after any sequence of insert calls on an empty list, the list is
\* sorted ascending by (from, to), holds exactly the multiset of the inserted
\* ranges (an equal range behind the existing equal ones), and each call
\* returns the position of the range it inserted.
C14_InsertKeepsSortedMultiset ==
    OnlyCalls("insert") =>
        /\ SortedList(list)
        /\ \A r \in ListRanges : Occurrences(list, r) = Called(r)
        /\ LastCallPosition

\* the step is a call of push_back
PushBackStep ==
    /\ Len(lCalls') = Len(lCalls) + 1
    /\ lCalls'[Len(lCalls')].op = "push_back"

\* the range is descending or starts before the end of the last range of l
OutOfOrder(l, range) ==
    \/ range.from > range.to
    \/ l # <<>> /\ range.from < l[Len(l)].to

\* C15: the order check of push_back is a build-time switch: with checking
\* enabled a descending range or a range that starts before the end of the
\* last range raises an error and leaves the list unchanged; with checking
\* disabled the same call appends the range without any check.
C15_PushBackCheckIsBuildSwitch ==
    [][PushBackStep =>
         LET c == lCalls'[Len(lCalls')]
         IN  /\ (debugMode /\ OutOfOrder(list, c.range)) =>
                   (c.res = "thrown" /\ list' = list)
             /\ ~debugMode =>
                   (c.res = "ok" /\ list' = Append(list, c.range))]_vars

\* with checking enabled, a range that starts before the end of the only
\* stored range was refused and the list is as it was
C15_Witness ==
    /\ debugMode
    /\ Len(lCalls) = 2
    /\ lCalls[1] = ListCall("push_back", IndexRange(1, 3), "ok", 0)
    /\ lCalls[2] = ListCall("push_back", IndexRange(2, 3), "thrown", 0)
    /\ list = <<IndexRange(1, 3)>>

\* [i, j] is an allowed loop region of seq as stated: the bound
\* (j - i) <= 1 + maxLoopSize is taken on the unbounded integers
AllowedLoopRegionStated(seq, i, j, maxLoopSize) ==
    /\ i <= j
    /\ i < Len(seq)
    /\ j < Len(seq)
    /\ seq[i + 1] # "N"
    /\ seq[j + 1] # "N"
    /\ j - i <= 1 + maxLoopSize

\* (i1, j1, i2, j2) are valid internal loop boundaries as stated
ValidInternalLoopStated(i1, j1, i2, j2) ==
    /\ AreComplementary(seq1, seq2, i1, i2)
    /\ AreComplementary(seq1, seq2, j1, j2)
    /\ AllowedLoopRegionStated(seq1, i1, j1, maxInternalLoopSize1)
    /\ AllowedLoopRegionStated(seq2, i2, j2, maxInternalLoopSize2)
    /\ \/ j1 = i1 /\ j2 = i2
       \/ j1 > i1 /\ j2 > i2

\* C19: isValidInternalLoop(i1, j1, i2, j2) is true iff (i1, i2) and (j1, j2)
\* are complementary, [i1, j1] and [i2, j2] are allowed loop regions of their
\* sequence, and both spans are zero-width or both are strictly positive;
\* it is true for a zero-width loop on a complementary, in-bounds,
\* non-ambiguous pair.
C19_ValidInternalLoop ==
    qOut.fn = "isValidInternalLoop" =>
        (qOut.res <=> ValidInternalLoopStated(qI1, qJ1, qI2, qJ2))

\* C20: isAllowedLoopRegion(sequence, i, j, maxLoopSize) is true iff i <= j,
\* both are below the sequence length, neither position holds an ambiguous
\* base and (j - i) <= 1 + maxLoopSize, for every maxLoopSize, the largest
\* representable value included.
C20_AllowedLoopRegion ==
    qOut.fn = "isAllowedLoopRegion" =>
        (qOut.res <=> AllowedLoopRegionStated(seq1, qI1, qJ1, maxInternalLoopSize1))

\* Unit times the sum stated for a finite hybridE
StatedEnergySum(model, c) ==
    Unit * (c.hybridE + GetED1(c.i1, c.j1) + GetED2(c.i2, c.j2))
    + GetE_danglingLeft(model, c.i1, c.i2) * GetPr_danglingLeft(c.i1, c.j1, c.i2, c.j2)
    + GetE_danglingRight(model, c.j1, c.j2) * GetPr_danglingRight(c.i1, c.j1, c.i2, c.j2)
    + Unit * (GetE_endLeft(model, c.i1, c.i2) + GetE_endRight(model, c.j1, c.j2))

\* C16: getE(i1, j1, i2, j2, hybridE) returns the infinite sentinel when
\* hybridE is infinite, and otherwise hybridE + ED1 + ED2 + danglingLeft *
\* Pr_danglingLeft + danglingRight * Pr_danglingRight + endLeft + endRight;
\* for InteractionEnergyBasePair this is hybridE + ED1 + ED2.
C16_GetEFormula ==
    eOut.fn = "getE" =>
        LET c == lanes[eOut.lane]
            value == eOut.values[1]
        IN  IF c.hybridE = E_INF
            THEN value = E_INF
            ELSE /\ Unit * value = StatedEnergySum(energyModel, c)
                 /\ energyModel = "BasePair" =>
                       value = c.hybridE + GetED1(c.i1, c.j1) + GetED2(c.i2, c.j2)

\* getE returned a finite energy whose left dangling end term is weighted
\* by a probability below 1
C16_Witness ==
    /\ eOut.fn = "getE"
    /\ energyModel = "Other"
    /\ lanes[eOut.lane] = Lane(Quad(1, 2, 1, 1), 0 - 2 * Unit)
    /\ GetPr_danglingLeft(1, 2, 1, 1) \in 1..(Unit - 1)
    /\ eOut.values[1] < 0 - 2 * Unit + GetED1(1, 2) + GetED2(1, 1)
    /\ eOut.values[1] # E_INF

\* C17: each lane of getE_SSE equals the scalar getE of that lane's
\* quadruple, for finite hybridE of any value and for infinite hybridE.
C17_VectorEqualsScalar ==
    eOut.fn = "getE_SSE" =>
        /\ eOut.res = "ok"
        /\ \A k \in Lanes :
              eOut.values[k] = GetE(energyModel, lanes[k].i1, lanes[k].j1,
                                    lanes[k].i2, lanes[k].j2, lanes[k].hybridE)

\* the candidates with the hybridE of lane k replaced by h
WithHybridE(ls, k, h) == [ls EXCEPT ![k].hybridE = h]

\* C18: in getE_SSE a lane whose hybridE is the infinite sentinel yields the
\* infinite sentinel, and every other lane yields what it yields when that
\* lane's hybridE is finite.
C18_InfiniteLaneIsolated ==
    eOut.fn = "getE_SSE" =>
        /\ eOut.res = "ok"
        /\ \A k \in Lanes :
              lanes[k].hybridE = E_INF =>
                /\ eOut.values[k] = E_INF
                /\ \A h \in HybridEs \ {E_INF}, g3 \in GarbageQuads, g4 \in GarbageQuads :
                      LET other == GetE_SSE(energyModel, WithHybridE(lanes, k, h), g3, g4)
                      IN  /\ other.res = "ok"
                          /\ \A m \in Lanes \ {k} : other.values[m] = eOut.values[m]

\* C21: InteractionEnergyBasePair.getE_interLeft(i1, j1, i2, j2) returns -1
\* (= getBestE_interLoop() = getE_init()) exactly when
\* isValidInternalLoop(i1, j1, i2, j2) holds and the infinite sentinel
\* otherwise, for all index combinations, whatever the span of the loop.
C21_InterLeftFollowsValidLoop ==
    qOut.fn = "getE_interLeft" =>
        /\ qOut.energy \in {0 - Unit, E_INF}
        /\ qOut.energy = 0 - Unit <=> IsValidInternalLoop(qI1, qJ1, qI2, qJ2)
        /\ GetBestE_interLoop = 0 - Unit
        /\ GetE_init = 0 - Unit

\* getE_interLeft returned -1 for a loop that spans three positions of
\* each sequence
C21_Witness ==
    /\ qOut.fn = "getE_interLeft"
    /\ qOut.energy = 0 - Unit
    /\ qJ1 = qI1 + 2
    /\ qJ2 = qI2 + 2

\* the range lies wholly behind the last range of l
BehindLast(l, range) ==
    l = <<>> \/ l[Len(l)].to < range.from

\* C26: with invariant checking enabled, push_back accepts every ascending
\* range (from <= to, a single position with from = to included) that does
\* not overlap the current last range, and appends it; it raises an error
\* only for a range with from > to or a range that overlaps or precedes the
\* last range.
C26_PushBackAcceptsAscending ==
    [][(debugMode /\ PushBackStep) =>
         LET c == lCalls'[Len(lCalls')]
         IN  /\ (IsAscending(c.range) /\ BehindLast(list, c.range)) =>
                   (c.res = "ok" /\ list' = Append(list, c.range))
             /\ c.res = "thrown" => OutOfOrder(list, c.range)]_vars

\* on the numbers themselves, the window count x + y - 1 of a valid call is
\* larger than the largest index
CountExceeds(r, windowWidth, windowsOverlap) ==
    (r.to - r.from - windowsOverlap + 1) + (windowWidth - windowsOverlap) - 1 > SizeMax

\* on the numbers themselves, a window that the loop of a valid call starts
\* ends behind the largest index
WindowEndExceeds(r, windowWidth, windowsOverlap) ==
    \E k \in 0..SizeMax :
        LET currentIndex == r.from + k * (windowWidth - windowsOverlap)
        IN  /\ currentIndex + windowsOverlap - 1 < r.to
            /\ currentIndex + windowWidth - 1 > SizeMax

\* C24: in overlappingWindows, with size_t of IndexBits bits, no arithmetic
\* wraps silently for any from <= to: whenever the window count or the end
\* currentIndex + width - 1 of a window exceeds the largest index, the call
\* fails with the overflow error and produces no windows from wrapped values.
C24_OverflowIsReported ==
    (/\ WindowsCalled
     /\ ValidWindowCall(wRange, wWidth, wOverlap)
     /\ \/ CountExceeds(wRange, wWidth, wOverlap)
        \/ WindowEndExceeds(wRange, wWidth, wOverlap)) =>
        wOut.res = "overflow when calculating the number of windows"

(***************************************************************************)
(* Properties of the eviction and of the stored copies                     *)
(***************************************************************************)
\* the storage is full and the interaction of thread t is no stored one and
\* ranks before the worst stored one
EvictingCandidate(t) ==
    /\ maxToStore >= 1
    /\ Len(storage) = maxToStore
    /\ ~IsEmpty(arg[t])
    /\ arg[t] \notin Range(StoredKeys)
    /\ arg[t] < StoredKeys[Len(storage)]

\* C22: when the storage holds K = maxToStore >= 1 entries and add receives a
\* non-empty, non-duplicate interaction that ranks strictly better than the
\* worst entry, exactly the worst (last) entry is removed and the candidate is
\* inserted at its sorted position, so that the size stays K and the order
\* stays ascending; also when the insertion position is that of the evicted
\* entry, and when K = 1.  Step by step: such a call passes lines 53 and 60,
\* steps to the deletion without an undefined operation, releases and removes
\* the last entry only, and inserts the candidate in order.
C22_EvictionKeepsSizeAndOrder ==
    [][\A t \in Threads :
          /\ (pc[t] \in {"check", "search", "dup", "evict"} /\ pc'[t] # pc[t]
                  /\ EvictingCandidate(t)) =>
                /\ pc'[t] = CASE pc[t] = "check" -> "search"
                               [] pc[t] = "search" -> "dup"
                               [] pc[t] = "dup" -> "evict"
                               [] pc[t] = "evict" -> "delete"
                /\ ubEvents' = ubEvents
                /\ storage' = storage
                /\ heap' = heap
          /\ (pc[t] = "delete" /\ pc'[t] # pc[t] /\ maxToStore >= 1) =>
                /\ pc'[t] = "resize"
                /\ storage # <<>>
                /\ heap[storage[Len(storage)]].st = "live"
                /\ heap' = [heap EXCEPT ![storage[Len(storage)]].st = "released"]
                /\ storage' = storage
          /\ (pc[t] = "resize" /\ pc'[t] # pc[t] /\ maxToStore >= 1) =>
                /\ pc'[t] = "insert"
                /\ storage' = SubSeq(storage, 1, Len(storage) - 1)
                /\ Len(storage') = maxToStore - 1
                /\ heap' = heap
          /\ (pc[t] = "insert" /\ pc'[t] # pc[t] /\ maxToStore >= 1) =>
                /\ pc'[t] = "retStored"
                /\ Len(storage') = Len(storage) + 1
                /\ Len(storage') <= maxToStore
                /\ StoredKeys' = SortedSeq(Range(StoredKeys) \cup {arg[t]})]_vars

\* C25: for every maxToStore >= 0, maxToStore = 0 included, add never reads or
\* removes the worst (last) stored entry while the storage is empty, and the
\* storage size never exceeds maxToStore.
C25_EmptyStorageNeverRead ==
    /\ "rbegin of empty storage" \notin ubEvents
    /\ "prev of end of empty storage" \notin ubEvents
    /\ Len(storage) <= maxToStore

\* the pointers whose copy has been released once
ReleasedPointers == {p \in 1..Len(heap) : heap[p].st = "released"}

\* C23: over any sequence of add calls followed by the destruction of the
\* store, every copy the store creates is released exactly once: no copy is
\* ever released twice; while the store is alive and no call is inside its
\* critical section the live copies are exactly the entries of the storage;
\* the delete of an eviction releases the evicted (last) entry and no other;
\* a step of the destructor's loop releases the entry it stands on and no
\* other; and after the destructor no copy is left unreleased.
C23_EveryCopyReleasedOnce ==
    /\ [](\A p \in 1..Len(heap) : heap[p].st # "released twice")
    /\ []((dPc = "alive" /\ lock = NoThread) =>
             (LivePointers = Range(storage) /\ Cardinality(Range(storage)) = Len(storage)))
    /\ [](dPc = "destroyed" =>
             (storage = <<>> /\ LivePointers = {} /\ ReleasedPointers = 1..Len(heap)))
    /\ [][\A t \in Threads :
              (pc[t] = "delete" /\ pc'[t] = "resize") =>
                  /\ storage # <<>>
                  /\ heap[storage[Len(storage)]].st = "live"
                  /\ heap' = [heap EXCEPT ![storage[Len(storage)]].st = "released"]]_vars
    /\ [][(dPc = "loop" /\ it' # it) =>
              /\ heap[storage[it]].st = "live"
              /\ heap' = [heap EXCEPT ![storage[it]].st = "released"]]_vars
    /\ [][heap' # heap =>
              \/ \E t \in Threads :
                    \/ pc[t] = "delete" /\ pc'[t] = "resize"
                    \/ pc[t] = "insert" /\ pc'[t] = "retStored"
              \/ dPc = "loop" /\ it' # it]_vars
====
